---- MODULE Spec2Model ----
(***************************************************************************)
(* A model of the chat analyser: the export parser (whatsapp_parser.py),   *)
(* the aggregators (analysis_utils.py) and the roast template engine       *)
(* (roast_engine.py).                                                      *)
(*                                                                         *)
(* Text is a sequence of one-character strings, so that the regular        *)
(* expressions, strip(), lower() and the line concatenation of the source  *)
(* act on characters as they do in the program.                            *)
(***************************************************************************)
EXTENDS Integers, Sequences, FiniteSets, TLC

VARIABLES
    file,         \* parse_chat: the lines of the export, line terminators removed
    lineno,       \* parse_chat: number of lines the loop has consumed
    heap,         \* the Message objects constructed so far (an object is its index)
    messages,     \* parse_chat: the list `messages` (references into heap)
    current_msg,  \* parse_chat: the local `current_msg` (a reference, or None)
    pc,           \* parse_chat: "loop", "returned" or "raised"
    result,       \* what the caller of parse_chat holds: NoResult, or the returned list
    chat,         \* the Message sequence handed to the aggregators and the roast engine
    call,         \* the last call made on chat: the function and its arguments
    ret           \* what that call returned

parserVars == <<file, lineno, heap, messages, current_msg, pc, result>>

roastVars == <<chat, call, ret>>

vars == <<file, lineno, heap, messages, current_msg, pc, result, chat, call, ret>>

\* The number of lines of an export.
MaxLines == 3

\* The number of messages of a chat handed to the aggregators.
MaxMsgs == 3

\* The greatest n asked of top_words and top_emojis.
MaxN == 3

\* The largest count _percentage is called with on its own.
MaxWhole == 40

\* None as a reference to no Message (references are 1, 2, ...).
None == 0
\* What the caller holds while parse_chat has not returned a list.
NoResult == [returned |-> FALSE, value |-> <<>>]
\* The exception datetime.strptime raises.
ValueError == [error |-> "ValueError"]
\* re.match's None.
NoMatch == [matched |-> FALSE]
\* A group that took no part in the match (None), as m.group gives it.
NoGroup == <<>>

------------------------------------------------------------------------------
(* Characters *)

Digit == {"0", "1", "2", "3", "4", "5", "6", "7", "8", "9"}

\* The characters \s matches, among those of the exports used here.
Space == {" ", "\t"}

DigitVal(c) ==
    CASE c = "0" -> 0 [] c = "1" -> 1 [] c = "2" -> 2 [] c = "3" -> 3
      [] c = "4" -> 4 [] c = "5" -> 5 [] c = "6" -> 6 [] c = "7" -> 7
      [] c = "8" -> 8 [] c = "9" -> 9

\* int() of a string of digits.
RECURSIVE ToInt(_)
ToInt(s) ==
    IF s = <<>> THEN 0
    ELSE 10 * ToInt(SubSeq(s, 1, Len(s) - 1)) + DigitVal(s[Len(s)])

\* s[i:j] of the source: the characters at the 1-based places i .. j-1.
Slice(s, i, j) == SubSeq(s, i, j - 1)

\* Whether the k characters of s from place i exist and all belong to Cls.
AllIn(s, i, k, Cls) ==
    /\ i + k - 1 <= Len(s)
    /\ \A d \in 0 .. (k - 1) : s[i + d] \in Cls

\* Whether s holds the characters of lit from place i.
LitAt(s, i, lit) ==
    /\ i + Len(lit) - 1 <= Len(s)
    /\ \A d \in 1 .. Len(lit) : s[i + d - 1] = lit[d]

\* str.strip(): leading and trailing whitespace removed.
Strip(s) ==
    LET keep == {i \in 1 .. Len(s) : s[i] \notin Space}
        Min(S) == CHOOSE x \in S : \A y \in S : x <= y
        Max(S) == CHOOSE x \in S : \A y \in S : x >= y
    IN  IF keep = {} THEN <<>> ELSE SubSeq(s, Min(keep), Max(keep))

------------------------------------------------------------------------------
\* _MESSAGE_RE, piece by piece:
\*   ^  date: \d{1,2} / \d{1,2} / \d{2,4}   ,  \s*   time: \d{1,2} : \d{2}
\*      \s*  ampm: optional AM or PM   \s*  -  \s*   sender: [^:]+   :  \s*
\*      text: any characters   $
\* Every way the pattern can be laid over the line is a record of the places
\* where its pieces end; the match the engine returns is the one its greedy
\* quantifiers prefer.

\* Places after the date group matched from place 1.
DateEnds(s) ==
    { 1 + m + 1 + d + 1 + y : <<m, d, y>> \in
        { t \in (1 .. 2) \X (1 .. 2) \X (2 .. 4) :
            /\ AllIn(s, 1, t[1], Digit)
            /\ LitAt(s, 1 + t[1], <<"/">>)
            /\ AllIn(s, 2 + t[1], t[2], Digit)
            /\ LitAt(s, 2 + t[1] + t[2], <<"/">>)
            /\ AllIn(s, 3 + t[1] + t[2], t[3], Digit) } }

\* Places after \s* matched from place i.
SpaceEnds(s, i) == { i + k : k \in { k \in 0 .. (Len(s) + 1 - i) : AllIn(s, i, k, Space) } }

\* Places after the time group matched from place i.
TimeEnds(s, i) ==
    { i + h + 3 : h \in { h \in 1 .. 2 :
        /\ AllIn(s, i, h, Digit)
        /\ LitAt(s, i + h, <<":">>)
        /\ AllIn(s, i + h + 1, 2, Digit) } }

\* Places after the optional ampm group matched from place i.
AmPmEnds(s, i) ==
    {i} \cup { i + 2 : x \in { x \in {<<"A", "M">>, <<"P", "M">>} : LitAt(s, i, x) } }

\* Places after the sender group (one or more non-colon characters) from place i.
SenderEnds(s, i) ==
    { i + k : k \in { k \in 1 .. (Len(s) + 1 - i) : \A d \in 0 .. (k - 1) : s[i + d] # ":" } }

\* Every successful lay-out of the pattern over the whole line s.
Layouts(s) ==
    UNION { UNION { UNION { UNION { UNION { UNION { UNION { UNION {
      { [date |-> <<1, a>>, time |-> <<b, c>>, ampm |-> <<d, e>>,
         sender |-> <<h, i>>, text |-> <<k, Len(s) + 1>>]
        : k \in IF LitAt(s, i, <<":">>) THEN SpaceEnds(s, i + 1) ELSE {} }
        : i \in SenderEnds(s, h) }
        : h \in IF LitAt(s, f, <<"-">>) THEN SpaceEnds(s, f + 1) ELSE {} }
        : f \in SpaceEnds(s, e) }
        : e \in AmPmEnds(s, d) }
        : d \in SpaceEnds(s, c) }
        : c \in TimeEnds(s, b) }
        : b \in IF LitAt(s, a, <<",">>) THEN SpaceEnds(s, a + 1) ELSE {} }
        : a \in DateEnds(s) }

\* The order in which the backtracking engine prefers two lay-outs: each greedy
\* quantifier, in pattern order, takes as much as it can.
Key(L) == <<L.date[2], L.time[1], L.time[2], L.ampm[1], L.ampm[2],
            L.sender[1], L.sender[2], L.text[1]>>

Preferred(L, M) ==
    \/ Key(L) = Key(M)
    \/ \E j \in 1 .. 8 :
          /\ \A q \in 1 .. (j - 1) : Key(L)[q] = Key(M)[q]
          /\ Key(L)[j] > Key(M)[j]

\* _MESSAGE_RE.match(line): the named groups, or NoMatch.
_MESSAGE_RE(line) ==
    LET all == Layouts(line)
    IN  IF all = {} THEN NoMatch
        ELSE LET L == CHOOSE x \in all : \A y \in all : Preferred(x, y)
             IN  [date |-> Slice(line, L.date[1], L.date[2]),
                  time |-> Slice(line, L.time[1], L.time[2]),
                  ampm |-> IF L.ampm[2] > L.ampm[1]
                           THEN Slice(line, L.ampm[1], L.ampm[2]) ELSE NoGroup,
                  sender |-> Slice(line, L.sender[1], L.sender[2]),
                  text |-> Slice(line, L.text[1], L.text[2])]

------------------------------------------------------------------------------
(* _parse_timestamp *)

\* str.split(sep): the pieces of s between the occurrences of the character sep.
RECURSIVE Split(_, _)
Split(s, sep) ==
    IF \A i \in 1 .. Len(s) : s[i] # sep THEN <<s>>
    ELSE LET i == CHOOSE i \in 1 .. Len(s) :
                     s[i] = sep /\ \A j \in 1 .. (i - 1) : s[j] # sep
         IN  <<SubSeq(s, 1, i - 1)>> \o Split(SubSeq(s, i + 1, Len(s)), sep)

IsLeap(year) == year % 4 = 0 /\ (year % 100 # 0 \/ year % 400 = 0)

DaysInMonth(year, month) ==
    IF month = 2 THEN (IF IsLeap(year) THEN 29 ELSE 28)
    ELSE IF month \in {4, 6, 9, 11} THEN 30 ELSE 31

\* datetime.strptime(dt_str, fmt) for the two formats _parse_timestamp builds,
\* given the fields it put into dt_str: %m, %d, %Y, then %I:%M %p or %H:%M.
\* %Y takes exactly four digits; the other fields take one or two digits within
\* their range; the datetime constructor then rejects a day the month lacks and
\* year 0.
Strptime(month, day, year, time_str, ampm) ==
    LET hm == Split(time_str, ":")
        mo == ToInt(month)
        dd == ToInt(day)
        yy == ToInt(year)
        hh == ToInt(hm[1])
        mi == ToInt(hm[2])
        fields_ok ==
            /\ mo \in 1 .. 12
            /\ dd \in 1 .. 31
            /\ Len(year) = 4
            /\ IF ampm # NoGroup THEN hh \in 1 .. 12 ELSE hh \in 0 .. 23
            /\ mi \in 0 .. 59
        hour == IF ampm = NoGroup THEN hh
                ELSE IF ampm = <<"P", "M">> THEN (IF hh = 12 THEN 12 ELSE hh + 12)
                ELSE (IF hh = 12 THEN 0 ELSE hh)
    IN  IF fields_ok /\ yy >= 1 /\ dd <= DaysInMonth(yy, mo)
        THEN [year |-> yy, month |-> mo, day |-> dd, hour |-> hour, minute |-> mi]
        ELSE ValueError

_parse_timestamp(date_str, time_str, ampm) ==
    LET parts == Split(date_str, "/")
        month == parts[1]
        day == parts[2]
        year == IF Len(parts[3]) = 2 THEN <<"2", "0">> \o parts[3] ELSE parts[3]
    IN  Strptime(month, day, year, time_str, ampm)

------------------------------------------------------------------------------
(* The lines the exports are made of *)

\* "12/30/24, 9:15 PM - Al: Hey": a header: two-digit year, PM
LineHey ==
    <<"1", "2", "/", "3", "0", "/", "2", "4", ",", " ", "9", ":", "1", "5", " ", "P", "M", " ", "-", " ", "A", "l", ":", " ", "H", "e", "y">>

\* "1/5/2024, 21:05 - Bo:": a header: four-digit year, 24-hour time, empty text
LineBo ==
    <<"1", "/", "5", "/", "2", "0", "2", "4", ",", " ", "2", "1", ":", "0", "5", " ", "-", " ", "B", "o", ":">>

\* "2/29/24, 12:00 AM - Al: a:b": a header: 29 February of a leap year, midnight, a colon in the text
LineLeap ==
    <<"2", "/", "2", "9", "/", "2", "4", ",", " ", "1", "2", ":", "0", "0", " ", "A", "M", " ", "-", " ", "A", "l", ":", " ", "a", ":", "b">>

\* "13/5/24, 9:15 PM - Al: x": matches the pattern; month 13
LineMonth13 ==
    <<"1", "3", "/", "5", "/", "2", "4", ",", " ", "9", ":", "1", "5", " ", "P", "M", " ", "-", " ", "A", "l", ":", " ", "x">>

\* "2/30/24, 9:15 - Al: x": matches the pattern; 30 February
LineDay30 ==
    <<"2", "/", "3", "0", "/", "2", "4", ",", " ", "9", ":", "1", "5", " ", "-", " ", "A", "l", ":", " ", "x">>

\* "1/5/202, 9:15 PM - Al: x": matches the pattern; a three-digit year
LineYear3 ==
    <<"1", "/", "5", "/", "2", "0", "2", ",", " ", "9", ":", "1", "5", " ", "P", "M", " ", "-", " ", "A", "l", ":", " ", "x">>

\* "1/5/24, 9:15 PM -  : hi": matches the pattern; only whitespace between the dash and the colon
LineBlankSender ==
    <<"1", "/", "5", "/", "2", "4", ",", " ", "9", ":", "1", "5", " ", "P", "M", " ", "-", " ", " ", ":", " ", "h", "i">>

\* "": an empty line
LineEmpty ==
    <<>>

\* "and more": a continuation line
LineMore ==
    <<"a", "n", "d", " ", "m", "o", "r", "e">>

\* "  ": a line of whitespace
LineBlank ==
    <<" ", " ">>

\* "1/5/24, 9:15 pm - Al: x": no match: the pattern takes AM and PM in capitals only
LineLowerPm ==
    <<"1", "/", "5", "/", "2", "4", ",", " ", "9", ":", "1", "5", " ", "p", "m", " ", "-", " ", "A", "l", ":", " ", "x">>

\* "note: x": a continuation line holding a colon
LineNote ==
    <<"n", "o", "t", "e", ":", " ", "x">>

ExportLines ==
    {LineHey, LineBo, LineLeap, LineMonth13,
     LineDay30, LineYear3, LineBlankSender, LineEmpty,
     LineMore, LineBlank, LineLowerPm, LineNote}

\* _MESSAGE_RE.match and _parse_timestamp on each of these lines, computed once.
Matched == [l \in ExportLines |-> _MESSAGE_RE(l)]

Timestamped ==
    [l \in {x \in ExportLines : Matched[x] # NoMatch} |->
        _parse_timestamp(Matched[l].date, Matched[l].time, Matched[l].ampm)]

\* The exports: every sequence of at most MaxLines of these lines.
Exports == UNION { [1 .. n -> ExportLines] : n \in 0 .. MaxLines }

------------------------------------------------------------------------------
(* Message and parse_chat *)

\* The dataclass Message.
Message(timestamp, sender, text) ==
    [timestamp |-> timestamp, sender |-> sender, text |-> text]

\* str.strip("\n"): leading and trailing line breaks removed.
StripNewlines(s) ==
    LET keep == {i \in 1 .. Len(s) : s[i] # "\n"}
        Min(S) == CHOOSE x \in S : \A y \in S : x <= y
        Max(S) == CHOOSE x \in S : \A y \in S : x >= y
    IN  IF keep = {} THEN <<>> ELSE SubSeq(s, Min(keep), Max(keep))

\* The raw line the file iterator yields next: the line with its terminator.
raw_line == file[lineno + 1] \o <<"\n">>

\* The line the loop body works on.
line == StripNewlines(raw_line)

InLoop == pc = "loop" /\ lineno < Len(file)

\* `if not line: continue`
EmptyLine ==
    /\ InLoop
    /\ line = <<>>
    /\ lineno' = lineno + 1
    /\ UNCHANGED <<file, heap, messages, current_msg, pc, result>>
    /\ UNCHANGED roastVars

\* HeaderLine, had the loop caught strptime's ValueError and gone on to the next
\* line.
HeaderLine_SkipsBadDate ==
    /\ InLoop
    /\ line # <<>>
    /\ LET m == Matched[line]
       IN  /\ m # NoMatch
           /\ messages' = IF current_msg # None
                          THEN Append(messages, current_msg) ELSE messages
           /\ IF Timestamped[line] = ValueError
              THEN UNCHANGED <<heap, current_msg>>
              ELSE /\ heap' = Append(heap, Message(Timestamped[line], Strip(m.sender), m.text))
                   /\ current_msg' = Len(heap) + 1
    /\ lineno' = lineno + 1
    /\ UNCHANGED <<file, pc, result>>
    /\ UNCHANGED roastVars

\* HeaderLine, had it appended the new message to `messages` as soon as it
\* was constructed.
HeaderLine_AppendsNew ==
    /\ InLoop
    /\ line # <<>>
    /\ LET m == Matched[line]
       IN  /\ m # NoMatch
           /\ IF Timestamped[line] = ValueError
              THEN /\ pc' = "raised"
                   /\ UNCHANGED <<heap, current_msg, messages>>
              ELSE /\ heap' = Append(heap, Message(Timestamped[line], Strip(m.sender), m.text))
                   /\ current_msg' = Len(heap) + 1
                   /\ messages' = Append(messages, Len(heap) + 1)
                   /\ pc' = pc
    /\ lineno' = lineno + 1
    /\ UNCHANGED <<file, result>>
    /\ UNCHANGED roastVars

\* The line matches: the previous message is appended to `messages`, the
\* timestamp is parsed (strptime's ValueError leaves the function) and a new
\* Message becomes current_msg.
HeaderLine ==
    /\ InLoop
    /\ line # <<>>
    /\ LET m == Matched[line]
       IN  /\ m # NoMatch
           /\ messages' = IF current_msg # None
                          THEN Append(messages, current_msg) ELSE messages
           /\ LET sender == Strip(m.sender)
                  text == m.text
                  timestamp == Timestamped[line]
              IN  IF timestamp = ValueError
                  THEN /\ pc' = "raised"
                       /\ UNCHANGED <<heap, current_msg>>
                  ELSE /\ heap' = Append(heap, Message(timestamp, sender, text))
                       /\ current_msg' = Len(heap) + 1
                       /\ pc' = pc
    /\ lineno' = lineno + 1
    /\ UNCHANGED <<file, result>>
    /\ UNCHANGED roastVars

\* ContinuationLine, had it joined the line to the text without the line break.
ContinuationLine_NoBreak ==
    /\ InLoop
    /\ line # <<>>
    /\ Matched[line] = NoMatch
    /\ current_msg # None
    /\ heap' = [heap EXCEPT ![current_msg].text = @ \o line]
    /\ lineno' = lineno + 1
    /\ UNCHANGED <<file, messages, current_msg, pc, result>>
    /\ UNCHANGED roastVars

\* No match and a current message: `current_msg.text += "\n" + line`.
ContinuationLine ==
    /\ InLoop
    /\ line # <<>>
    /\ Matched[line] = NoMatch
    /\ current_msg # None
    /\ heap' = [heap EXCEPT ![current_msg].text = @ \o <<"\n">> \o line]
    /\ lineno' = lineno + 1
    /\ UNCHANGED <<file, messages, current_msg, pc, result>>
    /\ UNCHANGED roastVars

\* No match before the first message: the line is skipped.
SkippedLine ==
    /\ InLoop
    /\ line # <<>>
    /\ Matched[line] = NoMatch
    /\ current_msg = None
    /\ lineno' = lineno + 1
    /\ UNCHANGED <<file, heap, messages, current_msg, pc, result>>
    /\ UNCHANGED roastVars

\* Return, had it left out the append of the last message.
Return_DropsLast ==
    /\ pc = "loop"
    /\ lineno = Len(file)
    /\ result' = [returned |-> TRUE,
                   value |-> [i \in 1 .. Len(messages) |-> heap[messages[i]]]]
    /\ pc' = "returned"
    /\ UNCHANGED <<file, lineno, heap, messages, current_msg>>
    /\ UNCHANGED roastVars

\* After the loop: the last message is appended and the list returned. The
\* caller receives the Message objects the list refers to.
Return ==
    /\ pc = "loop"
    /\ lineno = Len(file)
    /\ messages' = IF current_msg # None
                   THEN Append(messages, current_msg) ELSE messages
    /\ result' = [returned |-> TRUE,
                   value |-> [i \in 1 .. Len(messages') |-> heap[messages'[i]]]]
    /\ pc' = "returned"
    /\ UNCHANGED <<file, lineno, heap, current_msg>>
    /\ UNCHANGED roastVars

------------------------------------------------------------------------------
(* The chats handed to the aggregators and the roast engine *)

\* Monday 30 December 2024, 21:15
R1 ==
    Message([year |-> 2024, month |-> 12, day |-> 30, hour |-> 21, minute |-> 15],
            <<"A", "l">>,
            <<"H", "e", "y", " ", "y", "o", " ", "U+1F602">>)

\* Friday 5 January 2024, 9:05
R2 ==
    Message([year |-> 2024, month |-> 1, day |-> 5, hour |-> 9, minute |-> 5],
            <<"B", "o">>,
            <<"y", "o", " ", "h", "e", "y">>)

\* Tuesday 31 December 2024, 21:00; no word survives, one run of two dingbats
R3 ==
    Message([year |-> 2024, month |-> 12, day |-> 31, hour |-> 21, minute |-> 0],
            <<"A", "l">>,
            <<"t", "h", "e", " ", "a", " ", "U+2764", "U+2764">>)

\* Monday 1 January 2024, 9:30; the star lies outside the emoji ranges
R4 ==
    Message([year |-> 2024, month |-> 1, day |-> 1, hour |-> 9, minute |-> 30],
            <<"C", "y">>,
            <<"U+1F602", " ", "o", "k", " ", "U+2B50">>)

\* Friday 5 January 2024, 0:10; an empty text
R5 ==
    Message([year |-> 2024, month |-> 1, day |-> 5, hour |-> 0, minute |-> 10],
            <<"B", "o">>,
            <<>>)

ChatPool == {R1, R2, R3, R4, R5}

ChatTexts == {m.text : m \in ChatPool}

\* The chats: every sequence of at most MaxMsgs of these messages.
Chats == UNION { [1 .. n -> ChatPool] : n \in 0 .. MaxMsgs }

------------------------------------------------------------------------------
(* Text helpers of the aggregators and the roast engine *)

UpperLetters ==
    <<"A", "B", "C", "D", "E", "F", "G", "H", "I", "J", "K", "L", "M",
      "N", "O", "P", "Q", "R", "S", "T", "U", "V", "W", "X", "Y", "Z">>

LowerLetters ==
    <<"a", "b", "c", "d", "e", "f", "g", "h", "i", "j", "k", "l", "m",
      "n", "o", "p", "q", "r", "s", "t", "u", "v", "w", "x", "y", "z">>

\* str.lower(): each capital letter replaced by its small letter.
Lower(s) ==
    [i \in 1 .. Len(s) |->
        IF \E j \in 1 .. 26 : UpperLetters[j] = s[i]
        THEN LowerLetters[CHOOSE j \in 1 .. 26 : UpperLetters[j] = s[i]]
        ELSE s[i]]

\* str(n) of an integer n >= 0, as an f-string writes it.
RECURSIVE Str(_)
Str(n) ==
    LET d == <<"0", "1", "2", "3", "4", "5", "6", "7", "8", "9">>[(n % 10) + 1]
    IN  IF n < 10 THEN <<d>> ELSE Str(n \div 10) \o <<d>>

\* The characters \w matches, among those of the texts used here.
WordChar ==
    {UpperLetters[j] : j \in 1 .. 26} \cup {LowerLetters[j] : j \in 1 .. 26}
        \cup Digit \cup {"_"}

\* The characters of the texts that lie outside ASCII, with their code points.
CodePoint(c) ==
    CASE c = "U+1F602" -> 128514
      [] c = "U+2764" -> 10084
      [] c = "U+2B50" -> 11088
      [] c = "U+2013" -> 8211

NonAscii == {"U+1F602", "U+2764", "U+2B50", "U+2013"}

\* The character class of _EMOJI_PATTERN: emoticons 1F600-1F64F, symbols and
\* pictographs 1F300-1F5FF, transport and map 1F680-1F6FF, flags 1F1E0-1F1FF,
\* dingbats 2700-27BF, supplemental symbols 1F900-1F9FF.
_EMOJI_PATTERN ==
    {c \in NonAscii :
        \/ CodePoint(c) \in 128512 .. 128591
        \/ CodePoint(c) \in 127744 .. 128511
        \/ CodePoint(c) \in 128640 .. 128767
        \/ CodePoint(c) \in 127456 .. 127487
        \/ CodePoint(c) \in 9984 .. 10175
        \/ CodePoint(c) \in 129280 .. 129535}

\* re.findall of a pattern "one or more characters of Cls" (for _WORD_RE, which
\* asks for a word boundary on both sides, these are the same runs): the
\* maximal runs of characters of Cls in s, from left to right.
RECURSIVE FindRuns(_, _)
FindRuns(s, Cls) ==
    IF s = <<>> THEN <<>>
    ELSE IF s[1] \notin Cls THEN FindRuns(Tail(s), Cls)
    ELSE LET k == CHOOSE k \in 1 .. Len(s) :
                     /\ AllIn(s, 1, k, Cls)
                     /\ (k = Len(s) \/ s[k + 1] \notin Cls)
         IN  <<SubSeq(s, 1, k)>> \o FindRuns(SubSeq(s, k + 1, Len(s)), Cls)

\* The elements of a sequence that satisfy Keep, in order.
RECURSIVE Filter(_, _)
Filter(s, Keep) ==
    IF s = <<>> THEN <<>>
    ELSE (IF Head(s) \in Keep THEN <<Head(s)>> ELSE <<>>) \o Filter(Tail(s), Keep)

\* The concatenation of a sequence of sequences.
RECURSIVE Flatten(_)
Flatten(ss) == IF ss = <<>> THEN <<>> ELSE Head(ss) \o Flatten(Tail(ss))

------------------------------------------------------------------------------
(* analysis_utils.py *)

STOPWORDS ==
    {<<"t", "h", "e">>,
     <<"a", "n", "d">>,
     <<"i", "s">>,
     <<"i", "n">>,
     <<"t", "o">>,
     <<"a">>,
     <<"o", "f">>,
     <<"f", "o", "r">>,
     <<"o", "n">>,
     <<"w", "i", "t", "h">>,
     <<"y", "o", "u">>,
     <<"i">>,
     <<"i", "t">>,
     <<"t", "h", "a", "t">>,
     <<"a", "t">>,
     <<"t", "h", "i", "s">>,
     <<"m", "y">>,
     <<"y", "o", "u", "r">>,
     <<"m", "e">>,
     <<"w", "e">>,
     <<"o", "u", "r">>,
     <<"u", "s">>,
     <<"b", "e">>,
     <<"a", "s">>,
     <<"a", "r", "e">>,
     <<"w", "a", "s">>,
     <<"w", "e", "r", "e">>,
     <<"s", "o">>,
     <<"b", "u", "t">>,
     <<"i", "f">>,
     <<"t", "o", "o">>,
     <<"n", "o", "t">>,
     <<"o", "r">>,
     <<"j", "u", "s", "t">>,
     <<"i", "t", "'", "s">>,
     <<"i", "t", "s">>,
     <<"c", "a", "n", "'", "t">>,
     <<"d", "o", "n", "t">>,
     <<"d", "o">>,
     <<"d", "i", "d">>,
     <<"d", "i", "d", "n", "'", "t">>,
     <<"d", "o", "n", "'", "t">>,
     <<"u">>,
     <<"i", "m">>,
     <<"l", "o", "l">>,
     <<"h", "a", "h", "a">>,
     <<"h", "a", "h", "a", "h", "a">>}

\* collections.Counter, and the dict made of it: the keys in the order of their
\* first insertion, each with its count.
EmptyCounter == [keys |-> <<>>, cnt |-> <<>>]

\* counts[key] += 1
Incr(c, key) ==
    IF \E i \in 1 .. Len(c.keys) : c.keys[i] = key
    THEN LET i == CHOOSE i \in 1 .. Len(c.keys) : c.keys[i] = key
         IN  [c EXCEPT !.cnt[i] = @ + 1]
    ELSE [keys |-> Append(c.keys, key), cnt |-> Append(c.cnt, 1)]

\* The loop `for x in xs: counter[x] += 1`.
RECURSIVE CountAll(_, _)
CountAll(c, xs) == IF xs = <<>> THEN c ELSE CountAll(Incr(c, Head(xs)), Tail(xs))

\* dict.items(): the (key, count) pairs in insertion order.
Items(c) == [i \in 1 .. Len(c.keys) |-> <<c.keys[i], c.cnt[i]>>]

\* datetime.weekday(): Monday is 0. The day's ordinal (1 January of year 1 is
\* day 1) plus 6, modulo 7.
Weekday(t) ==
    LET y == t.year - 1
        before_year == y * 365 + (y \div 4) - (y \div 100) + (y \div 400)
        before_month == [m \in 1 .. 12 |->
            IF m = 1 THEN 0
            ELSE LET days == [k \in 1 .. 12 |-> DaysInMonth(t.year, k)]
                     sum[k \in 0 .. 12] == IF k = 0 THEN 0 ELSE sum[k - 1] + days[k]
                 IN  sum[m - 1]]
    IN  (before_year + before_month[t.month] + t.day + 6) % 7

message_counts(ms) == CountAll(EmptyCounter, [i \in 1 .. Len(ms) |-> ms[i].sender])

messages_by_hour(ms) ==
    CountAll(EmptyCounter, [i \in 1 .. Len(ms) |-> ms[i].timestamp.hour])

messages_by_weekday(ms) ==
    CountAll(EmptyCounter, [i \in 1 .. Len(ms) |-> Weekday(ms[i].timestamp)])

\* _WORD_RE.findall(text): the maximal runs of word characters.
_WORD_RE(text) == FindRuns(text, WordChar)

extract_words(text) ==
    Filter(_WORD_RE(Lower(text)), {x \in Seq(WordChar) : x # <<>> /\ x \notin STOPWORDS /\ Len(x) > 1})

extract_emojis(text) == FindRuns(text, _EMOJI_PATTERN)

\* sorted(items, key=count, reverse=True) inserts each item, in turn, behind
\* the items whose count is not smaller: a stable sort by descending count.
\* InsertDesc with ties put in front of the earlier items, as an unstable
\* selection would.
InsertDesc_TiesFirst(sorted, x) ==
    LET k == Cardinality({i \in 1 .. Len(sorted) : sorted[i][2] > x[2]})
    IN  SubSeq(sorted, 1, k) \o <<x>> \o SubSeq(sorted, k + 1, Len(sorted))

InsertDesc(sorted, x) ==
    LET k == Cardinality({i \in 1 .. Len(sorted) : sorted[i][2] >= x[2]})
    IN  SubSeq(sorted, 1, k) \o <<x>> \o SubSeq(sorted, k + 1, Len(sorted))

RECURSIVE SortedDesc(_)
SortedDesc(items) ==
    IF items = <<>> THEN <<>>
    ELSE InsertDesc(SortedDesc(SubSeq(items, 1, Len(items) - 1)), items[Len(items)])

\* Counter.most_common(n), which is heapq.nlargest(n, items, key=count): nothing
\* for n <= 0, else the first n items of the stable descending order (all of
\* them when n is not smaller than their number).
most_common(c, n) ==
    IF n <= 0 THEN <<>>
    ELSE LET all == SortedDesc(Items(c))
         IN  SubSeq(all, 1, IF n < Len(all) THEN n ELSE Len(all))

\* extract_words and extract_emojis on each text of the chats, computed once.
WordsIn == [text \in ChatTexts |-> extract_words(text)]

EmojisIn == [text \in ChatTexts |-> extract_emojis(text)]

\* The words (emojis) of all messages, in the order the counting loop meets them.
AllWords(ms) == Flatten([i \in 1 .. Len(ms) |-> WordsIn[ms[i].text]])

AllEmojis(ms) == Flatten([i \in 1 .. Len(ms) |-> EmojisIn[ms[i].text]])

top_words(ms, n) == most_common(CountAll(EmptyCounter, AllWords(ms)), n)

top_emojis(ms, n) == most_common(CountAll(EmptyCounter, AllEmojis(ms)), n)

------------------------------------------------------------------------------
(* roast_engine.py *)

_WEEKDAY_NAMES ==
    [d \in 0 .. 6 |->
        <<<<"M", "o", "n", "d", "a", "y">>,
          <<"T", "u", "e", "s", "d", "a", "y">>,
          <<"W", "e", "d", "n", "e", "s", "d", "a", "y">>,
          <<"T", "h", "u", "r", "s", "d", "a", "y">>,
          <<"F", "r", "i", "d", "a", "y">>,
          <<"S", "a", "t", "u", "r", "d", "a", "y">>,
          <<"S", "u", "n", "d", "a", "y">>>>[d + 1]]

\* Python's float is the IEEE-754 double: a significand of 53 bits. A float is
\* modelled exactly, as [mant, exp]: mant the 53 bits of the significand, the
\* highest first (mant[1] = 1), and exp the weight of its last bit, so that the
\* value is mant * 2^exp; 0.0 has no bits.
MantBits == 53

FloatZero == [mant |-> <<>>, exp |-> 0]

Zeros(n) == [i \in 1 .. n |-> 0]

Front(b) == SubSeq(b, 1, Len(b) - 1)

\* The natural number n in binary, highest bit first (no bits for 0), and back.
RECURSIVE ToBits(_)
ToBits(n) == IF n = 0 THEN <<>> ELSE Append(ToBits(n \div 2), n % 2)

RECURSIVE BitsToInt(_)
BitsToInt(b) == IF b = <<>> THEN 0 ELSE 2 * BitsToInt(Front(b)) + b[Len(b)]

\* b + 1 in binary: the last 0 becomes 1 and the 1s after it become 0.
BitsSucc(b) ==
    LET zeros == {i \in 1 .. Len(b) : b[i] = 0}
    IN  IF zeros = {} THEN <<1>> \o Zeros(Len(b))
        ELSE LET j == CHOOSE i \in zeros : \A k \in zeros : k <= i
             IN  [i \in 1 .. Len(b) |-> IF i < j THEN b[i] ELSE IF i = j THEN 1 ELSE 0]

\* The 16 binary digits of d < 2^16.
Bits16(d) == [i \in 1 .. 16 |-> (d \div 2 ^ (16 - i)) % 2]

\* The double nearest to bits * 2^exp (+ something below the last bit when
\* sticky): IEEE-754 round-to-nearest, ties to the even significand. bits[1] = 1.
RoundNearestEven(bits, sticky, exp) ==
    IF Len(bits) <= MantBits
    THEN [mant |-> bits \o Zeros(MantBits - Len(bits)),
          exp |-> exp - (MantBits - Len(bits))]
    ELSE LET keep == SubSeq(bits, 1, MantBits)
             guard == bits[MantBits + 1]
             rest == sticky \/ \E i \in (MantBits + 2) .. Len(bits) : bits[i] = 1
             up == guard = 1 /\ (rest \/ keep[MantBits] = 1)
             m == IF up THEN BitsSucc(keep) ELSE keep
             e == exp + (Len(bits) - MantBits)
         IN  IF Len(m) > MantBits
             THEN [mant |-> SubSeq(m, 1, MantBits), exp |-> e + 1]
             ELSE [mant |-> m, exp |-> e]

\* The binary digits of r/w after the point (r < w), appended to the digits
\* acc found so far, until there is one digit more than the significand holds;
\* n digits after the point have been produced. Leading zeros are not kept.
RECURSIVE FracBits(_, _, _, _)
FracBits(r, w, acc, n) ==
    IF Len(acc) > MantBits
    THEN [bits |-> acc, sticky |-> r # 0, exp |-> 0 - n]
    ELSE LET bit == IF 2 * r >= w THEN 1 ELSE 0
             acc2 == IF acc = <<>> /\ bit = 0 THEN <<>> ELSE Append(acc, bit)
         IN  FracBits(2 * r - bit * w, w, acc2, n + 1)

\* part / whole of two ints, part >= 0 and whole > 0: the double nearest to the
\* exact quotient.
TrueDiv(part, whole) ==
    IF part = 0 THEN FloatZero
    ELSE LET d == FracBits(part % whole, whole, ToBits(part \div whole), 0)
         IN  RoundNearestEven(d.bits, d.sticky, d.exp)

\* x * 100: the double nearest to the exact product. The product of the 53-bit
\* significand is taken in pieces of 16 bits, from the lowest, with carry.
FloatMul100(x) ==
    IF x = FloatZero THEN FloatZero
    ELSE LET m == x.mant
             t0 == BitsToInt(SubSeq(m, 38, 53)) * 100
             t1 == BitsToInt(SubSeq(m, 22, 37)) * 100 + t0 \div 65536
             t2 == BitsToInt(SubSeq(m, 6, 21)) * 100 + t1 \div 65536
             t3 == BitsToInt(SubSeq(m, 1, 5)) * 100 + t2 \div 65536
             product == ToBits(t3) \o Bits16(t2 % 65536) \o Bits16(t1 % 65536)
                           \o Bits16(t0 % 65536)
         IN  RoundNearestEven(product, FALSE, x.exp)

\* round(x) of a float x >= 0 below 2^30, hitting the wrong side of a half:
\* halves go up.
PyRound_HalfUp(x) ==
    IF x = FloatZero THEN 0
    ELSE LET n == MantBits + x.exp
             whole == IF n <= 0 THEN 0
                      ELSE IF n >= MantBits THEN BitsToInt(x.mant \o Zeros(x.exp))
                      ELSE BitsToInt(SubSeq(x.mant, 1, n))
             frac == IF n >= MantBits THEN <<>>
                     ELSE IF n >= 0 THEN SubSeq(x.mant, n + 1, MantBits)
                     ELSE Zeros(0 - n) \o x.mant
         IN  IF frac # <<>> /\ frac[1] = 1 THEN whole + 1 ELSE whole

\* int(round(x)) of a float x >= 0 below 2^30: float.__round__ without ndigits
\* gives the nearest integer to the double's exact value, and of two equally
\* near ones the even one.
PyRound(x) ==
    IF x = FloatZero THEN 0
    ELSE LET n == MantBits + x.exp
             whole == IF n <= 0 THEN 0
                      ELSE IF n >= MantBits THEN BitsToInt(x.mant \o Zeros(x.exp))
                      ELSE BitsToInt(SubSeq(x.mant, 1, n))
             frac == IF n >= MantBits THEN <<>>
                     ELSE IF n >= 0 THEN SubSeq(x.mant, n + 1, MantBits)
                     ELSE Zeros(0 - n) \o x.mant
             half == frac # <<>> /\ frac[1] = 1
             more == \E i \in 2 .. Len(frac) : frac[i] = 1
         IN  IF ~half THEN whole
             ELSE IF more THEN whole + 1
             ELSE IF whole % 2 = 0 THEN whole ELSE whole + 1

\* int(round(part / whole * 100)) if whole else 0
_percentage(part, whole) ==
    IF whole # 0 THEN PyRound(FloatMul100(TrueDiv(part, whole))) ELSE 0

\* _percentage(count, total_messages) for the counts of a chat, computed once.
SenderPercentages ==
    [whole \in 0 .. MaxMsgs |-> [part \in 0 .. whole |-> _percentage(part, whole)]]

_format_hour(hour) ==
    LET suffix == IF hour < 12 THEN <<"A", "M">> ELSE <<"P", "M">>
        h == IF hour % 12 = 0 THEN 12 ELSE hour % 12
    IN  Str(h) \o suffix

\* "\n".join(lines)
RECURSIVE Join(_)
Join(lines) ==
    IF lines = <<>> THEN <<>>
    ELSE IF Len(lines) = 1 THEN lines[1]
    ELSE lines[1] \o <<"\n">> \o Join(Tail(lines))

mild == <<"m", "i", "l", "d">>
medium == <<"m", "e", "d", "i", "u", "m">>
savage == <<"s", "a", "v", "a", "g", "e">>

\* max(items, key=count), had it kept the last of the greatest counts.
MaxByCount_Last(items) ==
    items[CHOOSE i \in 1 .. Len(items) :
            /\ \A j \in 1 .. Len(items) : items[j][2] <= items[i][2]
            /\ \A j \in (i + 1) .. Len(items) : items[j][2] < items[i][2]]

\* max(items, key=count): the first item, in the order of the items, whose
\* count no other exceeds.
MaxByCount(items) ==
    items[CHOOSE i \in 1 .. Len(items) :
            /\ \A j \in 1 .. Len(items) : items[j][2] <= items[i][2]
            /\ \A j \in 1 .. (i - 1) : items[j][2] < items[i][2]]

\* The level as lower() leaves it, with no default for an unknown one.
NormalizeLevel_NoDefault(level) == Lower(level)

\* level = level.lower(); an unknown level becomes "medium".
NormalizeLevel(level) ==
    IF Lower(level) \in {mild, medium, savage} THEN Lower(level) ELSE medium

\* The line about the most talkative sender.
TalkativeLine(level, top_sender, top_pct) ==
    IF level = mild THEN
           top_sender
        \o <<" ", "s", "e", "n", "t", " ", "t", "h", "e", " ", "m", "o", "s", "t",
             " ", "m", "e", "s", "s", "a", "g", "e", "s", " ", "a", "t", " ">>
        \o Str(top_pct)
        \o <<"%", " ", "o", "f", " ", "t", "h", "e", " ", "c", "h", "a", "t", ".",
             " ", "Q", "u", "i", "t", "e", " ", "t", "h", "e", " ", "s", "o", "c",
             "i", "a", "l", " ", "b", "u", "t", "t", "e", "r", "f", "l", "y", "!">>
    ELSE IF level = medium THEN
           top_sender
        \o <<" ", "d", "o", "m", "i", "n", "a", "t", "e", "d", " ", "t", "h", "e",
             " ", "c", "h", "a", "t", " ", "w", "i", "t", "h", " ">>
        \o Str(top_pct)
        \o <<"%", " ", "o", "f", " ", "t", "h", "e", " ", "m", "e", "s", "s", "a",
             "g", "e", "s", ".", " ", "M", "a", "y", "b", "e", " ", "l", "e", "t",
             " ", "s", "o", "m", "e", "o", "n", "e", " ", "e", "l", "s", "e", " ",
             "g", "e", "t", " ", "a", " ", "w", "o", "r", "d", " ", "i", "n", "?">>
    ELSE
           top_sender
        \o <<" ", "h", "o", "g", "g", "e", "d", " ">>
        \o Str(top_pct)
        \o <<"%", " ", "o", "f", " ", "t", "h", "e", " ", "c", "o", "n", "v", "e",
             "r", "s", "a", "t", "i", "o", "n", ".", " ", "E", "v", "e", "r", " ",
             "h", "e", "a", "r", "d", " ", "o", "f", " ", "a", " ", "h", "o", "b",
             "b", "y", " ", "o", "u", "t", "s", "i", "d", "e", " ", "t", "h", "i",
             "s", " ", "c", "h", "a", "t", "?">>

\* The line about the least talkative sender.
LurkerLine(level, bottom_sender, bottom_pct) ==
    IF level = mild THEN
           bottom_sender
        \o <<" ", "o", "n", "l", "y", " ", "c", "o", "n", "t", "r", "i", "b", "u",
             "t", "e", "d", " ">>
        \o Str(bottom_pct)
        \o <<"%", " ", "o", "f", " ", "m", "e", "s", "s", "a", "g", "e", "s", ".",
             " ", "L", "u", "r", "k", "i", "n", "g", " ", "i", "s", " ", "a", "n",
             " ", "a", "r", "t", " ", "f", "o", "r", "m", ",", " ", "a", "f", "t",
             "e", "r", " ", "a", "l", "l", ".">>
    ELSE IF level = medium THEN
           bottom_sender
        \o <<" ", "c", "l", "o", "c", "k", "e", "d", " ", "i", "n", " ", "a", "t",
             " ", "j", "u", "s", "t", " ">>
        \o Str(bottom_pct)
        \o <<"%", " ", "o", "f", " ", "m", "e", "s", "s", "a", "g", "e", "s", ".",
             " ", "D", "o", " ", "y", "o", "u", " ", "e", "v", "e", "n", " ", "k",
             "n", "o", "w", " ", "t", "h", "i", "s", " ", "c", "h", "a", "t", " ",
             "e", "x", "i", "s", "t", "s", "?">>
    ELSE
           bottom_sender
        \o <<" ", "b", "a", "r", "e", "l", "y", " ", "r", "e", "g", "i", "s", "t",
             "e", "r", "e", "d", " ", "a", "t", " ">>
        \o Str(bottom_pct)
        \o <<"%", " ", "o", "f", " ", "m", "e", "s", "s", "a", "g", "e", "s", ".",
             " ", "S", "i", "l", "e", "n", "t", " ", "m", "e", "m", "b", "e", "r",
             " ", "o", "r", " ", "p", "r", "o", "f", "e", "s", "s", "i", "o", "n",
             "a", "l", " ", "g", "h", "o", "s", "t", "e", "r", "?">>

\* The line about the peak hour and weekday.
PeakLine(level, peak_hour_str, weekday_name) ==
    IF level = mild THEN
           <<"M", "o", "s", "t", " ", "c", "h", "a", "t", "t", "i", "n", "g", " ",
             "h", "a", "p", "p", "e", "n", "s", " ", "a", "r", "o", "u", "n", "d", " ">>
        \o peak_hour_str
        \o <<" ", "o", "n", " ">>
        \o weekday_name
        \o <<".", " ", "N", "i", "g", "h", "t", " ", "o", "w", "l", "s", " ", "w",
             "i", "t", "h", " ", "a", " ", "s", "c", "h", "e", "d", "u", "l", "e",
             ",", " ", "p", "e", "r", "h", "a", "p", "s", "?">>
    ELSE IF level = medium THEN
           <<"P", "e", "a", "k", " ", "c", "h", "a", "t", " ", "t", "i", "m", "e",
             " ", "i", "s", " ">>
        \o peak_hour_str
        \o <<" ", "o", "n", " ">>
        \o weekday_name
        \o <<".", " ", "W", "h", "o", " ", "n", "e", "e", "d", "s", " ", "s", "l",
             "e", "e", "p", " ", "w", "h", "e", "n", " ", "y", "o", "u", " ", "h",
             "a", "v", "e", " ", "m", "e", "m", "e", "s", "?">>
    ELSE
           <<"Y", "o", "u", " ", "l", "o", "t", " ", "b", "l", "o", "w", " ", "u",
             "p", " ", "t", "h", "e", " ", "c", "h", "a", "t", " ", "a", "t", " ">>
        \o peak_hour_str
        \o <<" ", "o", "n", " ">>
        \o weekday_name
        \o <<".", " ", "C", "o", "n", "g", "r", "a", "t", "u", "l", "a", "t", "i",
             "o", "n", "s", " ", "o", "n", " ", "n", "e", "v", "e", "r", " ", "r",
             "e", "s", "p", "e", "c", "t", "i", "n", "g", " ", "b", "e", "d", " ",
             "t", "i", "m", "e", ".">>

\* The line about the favourite emoji.
EmojiLine(level, top_emoji, emoji_count) ==
    IF level = mild THEN
           <<"Y", "o", "u", "r", " ", "f", "a", "v", "o", "u", "r", "i", "t", "e",
             " ", "e", "m", "o", "j", "i", " ", "a", "p", "p", "e", "a", "r", "s",
             " ", "t", "o", " ", "b", "e", " ">>
        \o top_emoji
        \o <<",", " ", "u", "s", "e", "d", " ">>
        \o Str(emoji_count)
        \o <<" ", "t", "i", "m", "e", "s", ".", " ", "E", "x", "p", "r", "e", "s",
             "s", "i", "v", "e", " ", "b", "u", "n", "c", "h", "!">>
    ELSE IF level = medium THEN
           <<"T", "o", "p", " ", "e", "m", "o", "j", "i", " ", "a", "w", "a", "r",
             "d", " ", "g", "o", "e", "s", " ", "t", "o", " ">>
        \o top_emoji
        \o <<" ", "U+2013", " ", "d", "r", "o", "p", "p", "e", "d", " ">>
        \o Str(emoji_count)
        \o <<" ", "t", "i", "m", "e", "s", ".", " ", "M", "a", "y", "b", "e", " ",
             "d", "i", "v", "e", "r", "s", "i", "f", "y", " ", "y", "o", "u", "r",
             " ", "f", "e", "e", "l", "i", "n", "g", "s", "?">>
    ELSE
           top_emoji
        \o <<" ", "s", "h", "o", "w", "s", " ", "u", "p", " ">>
        \o Str(emoji_count)
        \o <<" ", "t", "i", "m", "e", "s", ".", " ", "E", "v", "e", "r", " ", "c",
             "o", "n", "s", "i", "d", "e", "r", "e", "d", " ", "u", "s", "i", "n",
             "g", " ", "w", "o", "r", "d", "s", " ", "l", "i", "k", "e", " ", "a",
             " ", "n", "o", "r", "m", "a", "l", " ", "h", "u", "m", "a", "n", "?">>

\* The line about the most common word.
WordLine(level, top_word, word_count) ==
    IF level = mild THEN
           <<"T", "h", "e", " ", "w", "o", "r", "d", " ", "'">>
        \o top_word
        \o <<"'", " ", "c", "o", "m", "e", "s", " ", "u", "p", " ", "a", " ", "l",
             "o", "t", " ", "(">>
        \o Str(word_count)
        \o <<" ", "t", "i", "m", "e", "s", ")", ".", " ", "L", "o", "o", "k", "s",
             " ", "l", "i", "k", "e", " ", "a", " ", "f", "a", "v", "o", "u", "r",
             "i", "t", "e", " ", "t", "o", "p", "i", "c", "!">>
    ELSE IF level = medium THEN
           <<"Y", "o", "u", " ", "s", "a", "y", " ", "'">>
        \o top_word
        \o <<"'", " ">>
        \o Str(word_count)
        \o <<" ", "t", "i", "m", "e", "s", ".", " ", "I", "s", " ", "t", "h", "a",
             "t", " ", "a", " ", "c", "r", "y", " ", "f", "o", "r", " ", "h", "e",
             "l", "p", " ", "o", "r", " ", "j", "u", "s", "t", " ", "l", "a", "z",
             "i", "n", "e", "s", "s", "?">>
    ELSE
           <<"'">>
        \o top_word
        \o <<"'", " ", "a", "p", "p", "e", "a", "r", "s", " ">>
        \o Str(word_count)
        \o <<" ", "t", "i", "m", "e", "s", ".", " ", "W", "e", " ", "g", "e", "t",
             " ", "i", "t", ",", " ", "y", "o", "u", " ", "h", "a", "v", "e", " ",
             "a", " ", "l", "i", "m", "i", "t", "e", "d", " ", "v", "o", "c", "a",
             "b", "u", "l", "a", "r", "y", ".">>

NoMessages ==
    <<"N", "o", " ", "m", "e", "s", "s", "a", "g", "e", "s", " ", "t", "o", " ", "r",
      "o", "a", "s", "t", ".">>

\* The part of generate_roast after the guard for an empty chat: the
\* aggregates, the locals and the lines.
RoastOf(msgs, level) ==
    LET total_messages == Len(msgs)
        counts == message_counts(msgs)
        sorted_counts == SortedDesc(Items(counts))
        top_sender == sorted_counts[1][1]
        top_count == sorted_counts[1][2]
        top_pct == SenderPercentages[total_messages][top_count]
        bottom_sender == sorted_counts[Len(sorted_counts)][1]
        bottom_count == sorted_counts[Len(sorted_counts)][2]
        bottom_pct == SenderPercentages[total_messages][bottom_count]
        hour_counts == messages_by_hour(msgs)
        peak_hour == MaxByCount(Items(hour_counts))[1]
        weekday_counts == messages_by_weekday(msgs)
        peak_weekday == MaxByCount(Items(weekday_counts))[1]
        emojis == top_emojis(msgs, 1)
        words == top_words(msgs, 1)
        peak_hour_str == _format_hour(peak_hour)
        weekday_name == _WEEKDAY_NAMES[peak_weekday]
        lines ==
            <<TalkativeLine(level, top_sender, top_pct),
              LurkerLine(level, bottom_sender, bottom_pct),
              PeakLine(level, peak_hour_str, weekday_name)>>
            \o (IF emojis # <<>>
                THEN <<EmojiLine(level, emojis[1][1], emojis[1][2])>> ELSE <<>>)
            \o (IF words # <<>>
                THEN <<WordLine(level, words[1][1], words[1][2])>> ELSE <<>>)
    IN  [text |-> Join(lines),
         computed |-> {"message_counts", "messages_by_hour",
                       "messages_by_weekday", "top_emojis", "top_words"},
         top_pct |-> top_pct, bottom_pct |-> bottom_pct,
         peak_hour |-> peak_hour, peak_weekday |-> peak_weekday]

\* generate_roast, had it counted the senders before looking whether there
\* are any messages.
generate_roast_CountsFirst(msgs, level) ==
    IF Len(msgs) = 0
    THEN [text |-> NoMessages, computed |-> {"message_counts"}]
    ELSE RoastOf(msgs, NormalizeLevel(level))

\* generate_roast(messages, level): the text it returns, with the aggregates
\* it computed on the way and its locals.
generate_roast(msgs, level) ==
    IF Len(msgs) = 0
    THEN [text |-> NoMessages, computed |-> {}]
    ELSE RoastOf(msgs, NormalizeLevel(level))

------------------------------------------------------------------------------
(* Calls of the aggregators and of generate_roast *)

\* The level strings handed to generate_roast.
Levels ==
    {mild, medium, savage,
     <<"S", "A", "V", "A", "G", "E">>,
     <<"M", "i", "l", "d">>,
     <<"e", "x", "t", "r", "e", "m", "e">>,
     <<"M", "E", "D", "I", "U", "M", "S">>,
     <<>>}

NoCall == [fn |-> "none", n |-> 0, level |-> <<>>]

\* A call of top_words(chat, n).
Call_top_words ==
    /\ \E n \in (-1) .. MaxN :
          /\ call' = [fn |-> "top_words", n |-> n, level |-> <<>>]
          /\ ret' = top_words(chat, n)
    /\ UNCHANGED chat
    /\ UNCHANGED parserVars

\* A call of top_emojis(chat, n).
Call_top_emojis ==
    /\ \E n \in (-1) .. MaxN :
          /\ call' = [fn |-> "top_emojis", n |-> n, level |-> <<>>]
          /\ ret' = top_emojis(chat, n)
    /\ UNCHANGED chat
    /\ UNCHANGED parserVars

\* A call of generate_roast(chat, level).
Call_generate_roast ==
    /\ \E level \in Levels :
          /\ call' = [fn |-> "generate_roast", n |-> 0, level |-> level]
          /\ ret' = generate_roast(chat, level)
    /\ UNCHANGED chat
    /\ UNCHANGED parserVars

\* The arguments of a call of _percentage that is still to be made: counts
\* with 0 <= part <= whole.
PercentArgs ==
    {a \in [fn : {"none"}, n : {0}, level : {<<>>},
            part : 0 .. MaxWhole, whole : 0 .. MaxWhole] : a.part <= a.whole}

\* The call of _percentage(part, whole) on those arguments.
Call__percentage ==
    /\ call \in PercentArgs
    /\ call' = [call EXCEPT !.fn = "_percentage"]
    /\ ret' = _percentage(call.part, call.whole)
    /\ UNCHANGED chat
    /\ UNCHANGED parserVars

------------------------------------------------------------------------------
(* The specifications *)

\* parse_chat on an export.
Init ==
    /\ file \in Exports
    /\ lineno = 0
    /\ heap = <<>>
    /\ messages = <<>>
    /\ current_msg = None
    /\ pc = "loop"
    /\ result = NoResult
    /\ chat = <<>>
    /\ call = NoCall
    /\ ret = <<>>

Next == EmptyLine \/ HeaderLine \/ ContinuationLine \/ SkippedLine \/ Return

Spec == Init /\ [][Next]_vars

\* The aggregators and generate_roast on a chat.
RoastInit ==
    /\ chat \in Chats
    /\ call = NoCall
    /\ ret = <<>>
    /\ file = <<>>
    /\ lineno = 0
    /\ heap = <<>>
    /\ messages = <<>>
    /\ current_msg = None
    /\ pc = "loop"
    /\ result = NoResult

RoastNext == Call_top_words \/ Call_top_emojis \/ Call_generate_roast

RoastSpec == RoastInit /\ [][RoastNext]_vars

\* _percentage on a pair of counts, or generate_roast on a chat.
PercentInit ==
    /\ \/ chat \in Chats /\ call = NoCall
       \/ chat = <<>> /\ call \in PercentArgs
    /\ ret = <<>>
    /\ file = <<>>
    /\ lineno = 0
    /\ heap = <<>>
    /\ messages = <<>>
    /\ current_msg = None
    /\ pc = "loop"
    /\ result = NoResult

PercentNext == Call__percentage \/ Call_generate_roast

PercentSpec == PercentInit /\ [][PercentNext]_vars

------------------------------------------------------------------------------
(* Properties of parse_chat *)

\* The places of the export's lines that match the header pattern.
HeaderIdx == {i \in 1 .. Len(file) : Matched[file[i]] # NoMatch}

\* The place of the k-th header line.
HeaderAt(k) == CHOOSE i \in HeaderIdx : Cardinality({j \in HeaderIdx : j < i}) = k - 1

\* The place of the first header line after place i, or one past the last line.
NextHeader(i) ==
    LET later == {j \in HeaderIdx : j > i}
    IN  IF later = {} THEN Len(file) + 1
        ELSE CHOOSE j \in later : \A x \in later : j <= x

\* The continuation lines of the header line at place h: the non-empty lines
\* after it and before the next header line (empty lines are skipped by the
\* parser and are no continuation lines).
RECURSIVE LinesBetween(_, _)
LinesBetween(i, j) ==
    IF i > j THEN <<>>
    ELSE (IF file[i] # <<>> THEN <<file[i]>> ELSE <<>>) \o LinesBetween(i + 1, j)

Continuations(h) == LinesBetween(h + 1, NextHeader(h) - 1)

\* Each line of ls preceded by one line break, in order.
RECURSIVE WithBreaks(_)
WithBreaks(ls) ==
    IF ls = <<>> THEN <<>> ELSE <<"\n">> \o Head(ls) \o WithBreaks(Tail(ls))

\* C1: when parse_chat succeeds, the number of records returned equals the
\* number of input lines that match the header pattern.
C1_RecordPerHeader ==
    result.returned => Len(result.value) = Cardinality(HeaderIdx)

\* A successful parse of an export that holds an empty line, a non-header line
\* and ends with a header line (whose record is finalized at end of input).
C1_Witness ==
    /\ result.returned
    /\ Len(result.value) >= 1
    /\ \E i \in 1 .. Len(file) : file[i] = <<>>
    /\ \E i \in 1 .. Len(file) : file[i] # <<>> /\ i \notin HeaderIdx
    /\ Len(file) \in HeaderIdx

\* Whether a timestamp is a calendar date and a time of day.
ValidTimestamp(t) ==
    /\ t # ValueError
    /\ t.year >= 1
    /\ t.month \in 1 .. 12
    /\ t.day \in 1 .. DaysInMonth(t.year, t.month)
    /\ t.hour \in 0 .. 23
    /\ t.minute \in 0 .. 59

\* C2: every record parse_chat returns has a non-empty sender (after trimming)
\* and a valid timestamp.
C2_SenderNonEmpty ==
    result.returned =>
        \A k \in 1 .. Len(result.value) :
            /\ Strip(result.value[k].sender) # <<>>
            /\ ValidTimestamp(result.value[k].timestamp)

\* C3: the text of every returned record is the header line's text followed
\* by a line break plus the line, for each continuation line of that header in
\* source order; splitting the appended part on line breaks gives back exactly
\* those continuation lines.
C3_ContinuationRoundTrip ==
    result.returned =>
        \A k \in 1 .. Len(result.value) :
            LET h == HeaderAt(k)
                head_text == Matched[file[h]].text
                conts == Continuations(h)
                text == result.value[k].text
                appended == SubSeq(text, Len(head_text) + 1, Len(text))
            IN  /\ text = head_text \o WithBreaks(conts)
                /\ IF conts = <<>> THEN appended = <<>>
                   ELSE /\ Head(appended) = "\n"
                        /\ Split(Tail(appended), "\n") = conts

\* A returned record with two continuation lines.
C3_Witness ==
    /\ result.returned
    /\ \E k \in 1 .. Len(result.value) : Len(Continuations(HeaderAt(k))) >= 2

\* Whether the date and time fields of a header match m are a calendar date
\* and a time of day (a two-digit year counts from 2000; with AM/PM the hour
\* is 1 to 12, without it 0 to 23).
CalendarValid(m) ==
    LET parts == Split(m.date, "/")
        hm == Split(m.time, ":")
        mo == ToInt(parts[1])
        dd == ToInt(parts[2])
        yy == IF Len(parts[3]) = 2 THEN 2000 + ToInt(parts[3]) ELSE ToInt(parts[3])
        hh == ToInt(hm[1])
    IN  /\ yy >= 1
        /\ mo \in 1 .. 12
        /\ dd >= 1
        /\ dd <= DaysInMonth(yy, mo)
        /\ IF m.ampm # NoGroup THEN hh \in 1 .. 12 ELSE hh \in 0 .. 23
        /\ ToInt(hm[2]) \in 0 .. 59

\* The header lines of the export whose date or time is not calendar-valid.
BadHeaderIdx == {i \in HeaderIdx : ~CalendarValid(Matched[file[i]])}

\* C4: when some header line of the export has date/time fields that are not
\* calendar-valid, the caller never holds a list of messages, and once
\* parse_chat has ended it has ended with the error.
C4_BadDateIsFatal ==
    BadHeaderIdx # {} =>
        /\ result = NoResult
        /\ pc # "returned"
        /\ lineno >= (CHOOSE i \in BadHeaderIdx : \A j \in BadHeaderIdx : i <= j)
              => pc = "raised"

\* parse_chat has raised at a header line with invalid fields after it had
\* already put a parsed record into `messages`.
C4_Witness ==
    /\ pc = "raised"
    /\ Len(messages) >= 1
    /\ lineno \in BadHeaderIdx
    /\ result = NoResult

\* The header pattern as the specification words it: the source's pattern with
\* a year of two or four digits.
SpecHeader(l) ==
    /\ Matched[l] # NoMatch
    /\ Len(Split(Matched[l].date, "/")[3]) \in {2, 4}

\* C5: a line that does not match the header pattern as the specification
\* defines it never makes parse_chat fail.
C5_NonHeaderNeverFails ==
    pc = "raised" => SpecHeader(file[lineno])

\* C10: the list `messages` changes only by an append at its end, and a Message
\* it refers to is never changed afterwards; the records returned stand in the
\* order of their header lines.
C10_AppendOnly ==
    /\ [][ /\ Len(messages') \in {Len(messages), Len(messages) + 1}
           /\ \A i \in 1 .. Len(messages) :
                 /\ messages'[i] = messages[i]
                 /\ heap'[messages[i]] = heap[messages[i]] ]_vars
    /\ [](result.returned =>
            \A k \in 1 .. Len(result.value) :
                k <= Cardinality(HeaderIdx) /\
                LET m == Matched[file[HeaderAt(k)]]
                    text == result.value[k].text
                IN  /\ result.value[k].sender = Strip(m.sender)
                    /\ result.value[k].timestamp = Timestamped[file[HeaderAt(k)]]
                    /\ SubSeq(text, 1, Len(m.text)) = m.text)

\* A record has been finalized and a continuation line has since been appended
\* to the current record.
C10_Witness ==
    /\ Len(messages) >= 1
    /\ current_msg # None
    /\ \E i \in 1 .. Len(heap[current_msg].text) : heap[current_msg].text[i] = "\n"

------------------------------------------------------------------------------
(* Properties of the aggregators and of generate_roast *)

\* How often x stands in the sequence T, and where it stands first.
Occ(T, x) == Cardinality({i \in 1 .. Len(T) : T[i] = x})

FirstAt(T, x) == CHOOSE i \in 1 .. Len(T) : T[i] = x /\ \A j \in 1 .. (i - 1) : T[j] # x

Distinct(T) == {T[i] : i \in 1 .. Len(T)}

\* x stands before y in the order "greater count first, and of equal counts
\* the one met first".
RankedBefore(T, x, y) ==
    \/ Occ(T, x) > Occ(T, y)
    \/ Occ(T, x) = Occ(T, y) /\ FirstAt(T, x) < FirstAt(T, y)

\* The items the last top_words or top_emojis call counted, in counting order.
Counted == IF call.fn = "top_words" THEN AllWords(chat) ELSE AllEmojis(chat)

\* C6: top_words(messages, n) and top_emojis(messages, n) return the first n
\* of the distinct counted items, each with its count, in the order of
\* descending count with ties in first-encountered order: nothing for n <= 0
\* or no messages, all distinct items when n exceeds their number.
C6_TopN ==
    call.fn \in {"top_words", "top_emojis"} =>
        LET T == Counted
            D == Distinct(T)
            want == IF call.n <= 0 THEN 0
                    ELSE IF call.n < Cardinality(D) THEN call.n ELSE Cardinality(D)
        IN  /\ Len(ret) = want
            /\ \A i \in 1 .. Len(ret) :
                  /\ ret[i][1] \in D
                  /\ ret[i][2] = Occ(T, ret[i][1])
                  /\ Cardinality({y \in D : RankedBefore(T, y, ret[i][1])}) = i - 1

\* A top_words call that cut a tie: an item left out has the count of the last
\* item returned.
C6_Witness ==
    /\ call.fn = "top_words"
    /\ call.n >= 1
    /\ Len(ret) = call.n
    /\ \E x \in Distinct(Counted) :
          /\ \A i \in 1 .. Len(ret) : ret[i][1] # x
          /\ Occ(Counted, x) = ret[Len(ret)][2]

Recognized == {mild, medium, savage}

\* C7: a level whose lowercase form is none of mild, medium, savage gives the
\* text of level "medium"; a recognized level in any case gives the text of
\* its lowercase form.
C7_UnknownLevelIsMedium ==
    call.fn = "generate_roast" =>
        IF Lower(call.level) \in Recognized
        THEN ret.text = generate_roast(chat, Lower(call.level)).text
        ELSE ret.text = generate_roast(chat, medium).text

\* A roast of a non-empty chat at an unrecognized level, where the three
\* levels give three different texts.
C7_Witness ==
    /\ call.fn = "generate_roast"
    /\ Lower(call.level) \notin Recognized
    /\ chat # <<>>
    /\ ret.text # generate_roast(chat, mild).text
    /\ ret.text # generate_roast(chat, savage).text

\* C8: for an empty message sequence generate_roast returns exactly the fixed
\* sentence, at every level, and computes no aggregate.
C8_EmptyChat ==
    (call.fn = "generate_roast" /\ chat = <<>>) =>
        /\ ret.text = NoMessages
        /\ \A i \in 1 .. Len(ret.text) : ret.text[i] # "\n"
        /\ ret.computed = {}

\* A roast of the empty chat at an unrecognized level.
C8_Witness ==
    /\ call.fn = "generate_roast"
    /\ chat = <<>>
    /\ Lower(call.level) \notin Recognized
    /\ ret.text = NoMessages

\* The hours (weekdays) of the chat's messages, in message order.
HoursOf(ms) == [i \in 1 .. Len(ms) |-> ms[i].timestamp.hour]

WeekdaysOf(ms) == [i \in 1 .. Len(ms) |-> Weekday(ms[i].timestamp)]

\* The values of T that occur most often.
Tied(T) == {x \in Distinct(T) : \A y \in Distinct(T) : Occ(T, y) <= Occ(T, x)}

\* Of the values tied for the maximum, the one met first in T.
FirstTied(T) == CHOOSE x \in Tied(T) : \A y \in Tied(T) : FirstAt(T, x) <= FirstAt(T, y)

\* Of the values tied for the maximum, the smallest.
SmallestTied(T) == CHOOSE x \in Tied(T) : \A y \in Tied(T) : x <= y

\* C9 as amended: the peak hour (weekday) generate_roast reports is, of the
\* hours (weekdays) that share the maximum count, the one that occurs first in
\* the message sequence.
C9_PeakIsFirstEncountered ==
    (call.fn = "generate_roast" /\ chat # <<>>) =>
        /\ ret.peak_hour = FirstTied(HoursOf(chat))
        /\ ret.peak_weekday = FirstTied(WeekdaysOf(chat))
        /\ Split(ret.text, "\n")[3] =
              PeakLine(NormalizeLevel(call.level),
                       _format_hour(FirstTied(HoursOf(chat))),
                       _WEEKDAY_NAMES[FirstTied(WeekdaysOf(chat))])

\* C9: of the hours (weekdays) that share the maximum count, generate_roast
\* reports the smallest.
C9_PeakIsSmallestTied ==
    (call.fn = "generate_roast" /\ chat # <<>>) =>
        /\ ret.peak_hour = SmallestTied(HoursOf(chat))
        /\ ret.peak_weekday = SmallestTied(WeekdaysOf(chat))

\* A roast of a chat in which several hours share the maximum count and the
\* one met first is not the smallest of them.
C9_Witness ==
    /\ call.fn = "generate_roast"
    /\ chat # <<>>
    /\ Cardinality(Tied(HoursOf(chat))) >= 2
    /\ FirstTied(HoursOf(chat)) # SmallestTied(HoursOf(chat))
    /\ ret.peak_hour = FirstTied(HoursOf(chat))

------------------------------------------------------------------------------
(* Properties of _percentage *)

\* The senders of a chat and how many messages each has sent, counted
\* directly on the sequence.
SendersOf(msgs) == {msgs[i].sender : i \in 1 .. Len(msgs)}

SentBy(msgs, s) == Cardinality({i \in 1 .. Len(msgs) : msgs[i].sender = s})

MostSent(msgs) ==
    CHOOSE c \in {SentBy(msgs, s) : s \in SendersOf(msgs)} :
        \A s \in SendersOf(msgs) : SentBy(msgs, s) <= c

LeastSent(msgs) ==
    CHOOSE c \in {SentBy(msgs, s) : s \in SendersOf(msgs)} :
        \A s \in SendersOf(msgs) : SentBy(msgs, s) >= c

\* Twice the distance of r from 100 * part / whole, in units of 1/whole.
Off(r, part, whole) ==
    IF whole * r >= 100 * part
    THEN 2 * (whole * r - 100 * part) ELSE 2 * (100 * part - whole * r)

\* r is an integer nearest to 100 * part / whole.
Nearest(r, part, whole) == Off(r, part, whole) <= whole

\* 100 * part / whole lies exactly halfway between two integers.
ExactHalf(part, whole) == whole > 0 /\ (200 * part) % (2 * whole) = whole

\* 100 * part / whole rounded to the nearest integer, an exact half away from
\* zero.
HalfAwayFromZero(part, whole) == (200 * part + whole) \div (2 * whole)

PowerOfTwo(w) == \E k \in 0 .. 30 : w = 2 ^ k

\* The first two lines of a roast carry the two percentages it computed.
PercentagesShown ==
    LET level == NormalizeLevel(call.level)
        shown == Split(ret.text, "\n")
    IN  /\ \E s \in SendersOf(chat) : shown[1] = TalkativeLine(level, s, ret.top_pct)
        /\ \E s \in SendersOf(chat) : shown[2] = LurkerLine(level, s, ret.bottom_pct)

\* C11: for 0 <= part <= whole, _percentage(part, whole) is part/whole*100
\* rounded to the nearest integer, an exact half away from zero;
\* _percentage(part, 0) is 0; the top and bottom sender percentages of the
\* roast are rounded this way.
C11_HalfAwayFromZero ==
    /\ call.fn = "_percentage" =>
          IF call.whole = 0 THEN ret = 0
          ELSE ret = HalfAwayFromZero(call.part, call.whole)
    /\ (call.fn = "generate_roast" /\ chat # <<>>) =>
          /\ ret.top_pct = HalfAwayFromZero(MostSent(chat), Len(chat))
          /\ ret.bottom_pct = HalfAwayFromZero(LeastSent(chat), Len(chat))
          /\ PercentagesShown

\* C11 as amended: for 0 <= part <= whole, _percentage(part, whole) is an
\* integer nearest to part/whole*100, and where that lies exactly halfway and
\* whole is a power of two (the quotient is then exact as a double) it is the
\* even one of the two; _percentage(part, 0) is 0; the top and bottom sender
\* percentages of the roast are nearest integers in the same way.
C11_NearestHalfToEven ==
    /\ call.fn = "_percentage" =>
          IF call.whole = 0 THEN ret = 0
          ELSE /\ Nearest(ret, call.part, call.whole)
               /\ (ExactHalf(call.part, call.whole) /\ PowerOfTwo(call.whole))
                     => ret % 2 = 0
    /\ (call.fn = "generate_roast" /\ chat # <<>>) =>
          /\ Nearest(ret.top_pct, MostSent(chat), Len(chat))
          /\ Nearest(ret.bottom_pct, LeastSent(chat), Len(chat))
          /\ PercentagesShown

\* _percentage has been called on counts whose percentage lies exactly halfway
\* with a power of two as whole, and has returned the lower, even integer.
C11_Witness ==
    /\ call.fn = "_percentage"
    /\ ExactHalf(call.part, call.whole)
    /\ PowerOfTwo(call.whole)
    /\ ret % 2 = 0
    /\ ret + 1 = HalfAwayFromZero(call.part, call.whole)

====
